---- MODULE Spec2Model ----
(***************************************************************************)
(* Model of crytic_compile/platform/hardhat.py: hardhat_like_parsing (the  *)
(* build-info parser), the splitting of source maps, and                   *)
(* Hardhat._get_hardhat_paths / Hardhat._run_hardhat_console.              *)
(***************************************************************************)
EXTENDS Integers, Sequences, FiniteSets, TLC

VARIABLES
    pc,                    \* position in hardhat_like_parsing
    err,                   \* kind of the exception that left the function, or "none"
    files,                 \* the list `files` after sorting and filtering
    idx,                   \* number of loop iterations of `for file in files` started
    units,                 \* uniq_ids of the CompilationUnits constructed so far
    compiler_version,      \* unit -> CompilerVersion or NoVersion
    skip_filename,         \* the local skip_filename of the current iteration
    drawn,                 \* number of section entries read from the documents so far
    source_units,          \* unit -> set of canonical filenames with a SourceUnit
    creations,             \* unit -> filename -> number of SourceUnit constructions
    ast,                   \* unit -> filename -> SourceUnit.ast
    contract_names,        \* unit -> filename -> SourceUnit contract names
    filename_to_contracts, \* unit -> filename -> CompilationUnit reverse index
    records,               \* unit -> filename -> name -> per-contract attributes
    original_filename,     \* the local `original_filename` of the contracts loop
    filename,              \* the local `filename` of the contracts loop
    srcSeen,               \* raw "sources" keys of the current document processed
    ctrPaths,              \* raw "contracts" keys of the current document processed
    ctrSeen,               \* <<raw path, raw name>> pairs of the current document processed
    lastSrc,               \* the last "sources" entry processed (its fields)
    snap,                  \* the SourceUnit as it was when the current contracts entry began
    sm_pc, sm_init, sm_runtime, sm_stored_init, sm_stored_runtime,
    hp_pc, hp_args, hp_console, hp_config_str, hp_result, hp_raised

parseVars == <<pc, err, files, idx, units, compiler_version, skip_filename, drawn,
               source_units, creations, ast, contract_names, filename_to_contracts,
               records, original_filename, filename, srcSeen, ctrPaths, ctrSeen, lastSrc, snap>>
splitVars == <<sm_pc, sm_init, sm_runtime, sm_stored_init, sm_stored_runtime>>
pathVars == <<hp_pc, hp_args, hp_console, hp_config_str, hp_result, hp_raised>>
vars == <<parseVars, splitVars, pathVars>>

----------------------------------------------------------------------------
(* Bounds of the model *)

\* entries ("sources" entries, "contracts" path entries and contracts) that the
\* documents of the build directory hold together
MaxEntries == 5
\* length of the source-map strings drawn for the splitting specification
MaxLen == 3

----------------------------------------------------------------------------
(* JSON values *)

\* a key that the mapping does not hold
Absent == "<absent>"
\* JSON null, Python None
Null == "<null>"
\* a sequence-valued field that holds nothing, and one that holds v
Nothing == {}
Some(v) == {v}
\* a path-valued local that is not bound
NoPath == <<>>

----------------------------------------------------------------------------
(* Paths and names *)

\* raw path keys a document may carry, as sequences of path components
RawPaths == {<<"A.sol">>, <<".", "A.sol">>}

\* the `target` argument of hardhat_like_parsing
Target == <<"proj">>

\* convert_filename: one canonical key for every representation of a file
convert_filename(path) == SelectSeq(path, LAMBDA c : c # ".")

Filenames == {convert_filename(p) : p \in RawPaths \cup {Target}}

\* raw contract identifiers, as the sequence of their ':'-separated parts
RawNames == {<<"A.sol", "A">>, <<"B">>}

\* extract_name: the trailing simple identifier
extract_name(name) == name[Len(name)]

BareNames == {extract_name(n) : n \in RawNames}

----------------------------------------------------------------------------
(* The build directory *)

\* directory entries as <<stem, extension>>
DirEntries == {<<"a", ".json">>, <<"b", ".json">>, <<"notes", ".txt">>}

\* os.path.getmtime of each entry
Mtime(f) == CASE f[1] = "a" -> 3 [] f[1] = "b" -> 1 [] OTHER -> 2

\* sorted(os.listdir(build_directory), key=mtime)
SortedByMtime(listing) ==
    CHOOSE s \in [1..Cardinality(listing) -> listing] :
        /\ \A i, j \in DOMAIN s : i # j => s[i] # s[j]
        /\ \A i, j \in DOMAIN s : i < j => Mtime(s[i]) <= Mtime(s[j])

\* [str(f) for f in files if str(f).endswith(".json")]
JsonFiles(listing) == SelectSeq(SortedByMtime(listing), LAMBDA f : f[2] = ".json")

\* uniq_id = file[0:-5]
uniq_id(file) == file[1]

UnitIds == {uniq_id(f) : f \in {g \in DirEntries : g[2] = ".json"}}

----------------------------------------------------------------------------
(* Compiler metadata *)

\* (input.language, solcVersion) of the documents
CompilerInputs == {<<"Solidity", "0.4.9">>, <<"Solidity", "0.4.10">>, <<"Vyper", "0.4.9">>}

Digits == <<"0", "1", "2", "3", "4", "5", "6", "7", "8", "9">>

\* [f"0.4.{x}" for x in range(0, 10)]
LegacyVersions == {"0.4." \o Digits[x + 1] : x \in 0..9}

\* "solc" if input_json["language"] == "Solidity" else "vyper"
CompilerOf(language) == IF language = "Solidity" THEN "solc" ELSE "vyper"

\* skip_filename = compilation_unit.compiler_version.version in [...]
SkipFilename(cv) == cv.version \in LegacyVersions

NoVersion == [compiler |-> Null, version |-> Null, optimized |-> FALSE]

\* the top-level shape of a build-info document
DocHeaders ==
    [output : BOOLEAN, solcVersion : BOOLEAN, input : BOOLEAN,
     compiler : CompilerInputs, optimized : {TRUE}]

----------------------------------------------------------------------------
(* Entries of the two sections *)

SourceInfos == [ast : {Absent, Null, "ast"}, legacyAST : {Absent, "legacyAST"}]

\* info.get("ast", info.get("legacyAST"))
AstOf(info) ==
    IF info.ast # Absent THEN info.ast
    ELSE IF info.legacyAST # Absent THEN info.legacyAST
    ELSE Null

\* source-map strings as sequences of characters
SrcMapInputs == {<<"1", ";", "2">>, <<"1", ";">>}

ContractInfos ==
    [abi : {Absent, "abi"},
     bytecode_object : {Absent, "600160"},
     deployedBytecode_object : {Absent, "aabb"},
     bytecode_sourceMap : {Nothing} \cup {Some(m) : m \in SrcMapInputs},
     deployedBytecode_sourceMap : {Nothing, Some(<<"1", ";", "2">>)},
     userdoc : {"userdoc"},
     devdoc : {Absent}]

\* whether a contract entry lacks the i-th required sub-field, in the order the parser
\* reads them: abi, bytecode.object, deployedBytecode.object, bytecode.sourceMap,
\* deployedBytecode.sourceMap
Lacks(info, i) ==
    CASE i = 1 -> info.abi = Absent
      [] i = 2 -> info.bytecode_object = Absent
      [] i = 3 -> info.deployedBytecode_object = Absent
      [] i = 4 -> info.bytecode_sourceMap = Nothing
      [] i = 5 -> info.deployedBytecode_sourceMap = Nothing

\* index of the first required key the entry lacks, 6 when it has them all
FirstMissing(info) ==
    IF \E i \in 1..5 : Lacks(info, i)
    THEN CHOOSE i \in 1..5 :
            /\ Lacks(info, i)
            /\ \A j \in 1..(i - 1) : ~Lacks(info, j)
    ELSE 6

----------------------------------------------------------------------------
(* str.split(";") *)

IndexOfSep(s) == CHOOSE i \in 1..Len(s) : s[i] = ";" /\ \A j \in 1..(i - 1) : s[j] # ";"

\* a split that drops empty pieces, as str.split() without a separator does
RECURSIVE SplitDropEmpty(_)
SplitDropEmpty(s) ==
    IF \A i \in 1..Len(s) : s[i] # ";"
    THEN IF s = <<>> THEN <<>> ELSE <<s>>
    ELSE LET i == IndexOfSep(s)
             head == SubSeq(s, 1, i - 1)
         IN (IF head = <<>> THEN <<>> ELSE <<head>>) \o SplitDropEmpty(SubSeq(s, i + 1, Len(s)))

RECURSIVE Split(_)
Split(s) ==
    IF \A i \in 1..Len(s) : s[i] # ";"
    THEN <<s>>
    ELSE LET i == IndexOfSep(s)
         IN <<SubSeq(s, 1, i - 1)>> \o Split(SubSeq(s, i + 1, Len(s)))

RECURSIVE Join(_)
Join(parts) ==
    IF Len(parts) = 0 THEN <<>>
    ELSE IF Len(parts) = 1 THEN parts[1]
    ELSE parts[1] \o <<";">> \o Join(Tail(parts))

CountSep(s) == Cardinality({i \in 1..Len(s) : s[i] = ";"})

----------------------------------------------------------------------------
(* The entity graph *)

\* SourceUnit's per-contract mappings before anything is stored
NoRecord ==
    [abis |-> Absent, bytecodes_init |-> Absent, bytecodes_runtime |-> Absent,
     srcmaps_init |-> Nothing, srcmaps_runtime |-> Nothing, natspec |-> Nothing]

EmptyDoc == "{}"

\* Natspec(info.get("userdoc", {}), info.get("devdoc", {}))
Natspec(info) ==
    Some(<<IF info.userdoc = Absent THEN EmptyDoc ELSE info.userdoc,
      IF info.devdoc = Absent THEN EmptyDoc ELSE info.devdoc>>)

\* lines 129-145: the assignments reached before the first missing key raises
StoreRecord(old, info) ==
    LET m == FirstMissing(info) IN
    [abis              |-> IF m > 1 THEN info.abi ELSE old.abis,
     bytecodes_init    |-> IF m > 2 THEN info.bytecode_object ELSE old.bytecodes_init,
     bytecodes_runtime |-> IF m > 3 THEN info.deployedBytecode_object
                                    ELSE old.bytecodes_runtime,
     srcmaps_init      |-> IF m > 4 THEN {Split(s) : s \in info.bytecode_sourceMap}
                                    ELSE old.srcmaps_init,
     srcmaps_runtime   |-> IF m > 5 THEN {Split(s) : s \in info.deployedBytecode_sourceMap}
                                    ELSE old.srcmaps_runtime,
     natspec           |-> IF m > 5 THEN Natspec(info) ELSE old.natspec]

\* compilation_unit.create_source_unit: the SourceUnits after the call
SourceUnitsAfterCreate(known, f) == known \cup {f}

\* compilation_unit.create_source_unit: SourceUnit constructions after the call
CreationsAfterCreate(known, count, f) ==
    IF f \in known THEN count ELSE [count EXCEPT ![f] = @ + 1]

\* a parser that logs the exception and goes on with the next file
AfterRaiseContinue == "loop"

\* an exception leaves hardhat_like_parsing: nothing in lines 62-145 catches it
AfterRaise == "error"

----------------------------------------------------------------------------
(* hardhat_like_parsing *)

NoEntry == [path |-> NoPath, info |-> [ast |-> Absent, legacyAST |-> Absent],
            key |-> NoPath]
NoSnap == [ast |-> Null, names |-> {}, records |-> [n \in BareNames |-> NoRecord]]

\* the unit of the current loop iteration
Unit == uniq_id(files[idx])

ParseInit ==
    /\ pc = "start"
    /\ err = "none"
    /\ files = <<>>
    /\ idx = 0
    /\ units = {}
    /\ compiler_version = [u \in UnitIds |-> NoVersion]
    /\ skip_filename = FALSE
    /\ drawn = 0
    /\ source_units = [u \in UnitIds |-> {}]
    /\ creations = [u \in UnitIds |-> [f \in Filenames |-> 0]]
    /\ ast = [u \in UnitIds |-> [f \in Filenames |-> Null]]
    /\ contract_names = [u \in UnitIds |-> [f \in Filenames |-> {}]]
    /\ filename_to_contracts = [u \in UnitIds |-> [f \in Filenames |-> {}]]
    /\ records = [u \in UnitIds |-> [f \in Filenames |-> [n \in BareNames |-> NoRecord]]]
    /\ original_filename = NoPath
    /\ filename = NoPath
    /\ srcSeen = {}
    /\ ctrPaths = {}
    /\ ctrSeen = {}
    /\ lastSrc = NoEntry
    /\ snap = NoSnap

Raise(kind) ==
    /\ pc' = AfterRaise
    /\ err' = kind

\* the directory listings the parser is run on
Listings == {{}, {<<"notes", ".txt">>}, {<<"a", ".json">>, <<"notes", ".txt">>}, DirEntries}

\* lines 48-60: the build directory and its .json files
Start ==
    /\ pc = "start"
    /\ \E isdir \in BOOLEAN, listing \in Listings :
        IF ~isdir
        THEN Raise("InvalidCompilation") /\ UNCHANGED files
        ELSE /\ files' = JsonFiles(listing)
             /\ IF files' = <<>>
                THEN Raise("InvalidCompilation")
                ELSE pc' = "loop" /\ UNCHANGED err
    /\ UNCHANGED <<idx, units, compiler_version, skip_filename, drawn, source_units,
                   creations, ast, contract_names, filename_to_contracts, records,
                   original_filename, filename, srcSeen, ctrPaths, ctrSeen, lastSrc, snap>>

\* lines 62-85: the next file, its CompilationUnit and its compiler metadata
OpenDocument ==
    /\ pc = "loop"
    /\ idx < Len(files)
    /\ idx' = idx + 1
    /\ units' = units \cup {uniq_id(files[idx + 1])}
    /\ srcSeen' = {}
    /\ ctrPaths' = {}
    /\ ctrSeen' = {}
    /\ lastSrc' = NoEntry
    /\ snap' = NoSnap
    /\ \E doc \in DocHeaders :
        IF ~doc.output \/ ~doc.solcVersion \/ ~doc.input
        THEN /\ Raise("KeyError")
             /\ UNCHANGED <<compiler_version, skip_filename>>
        ELSE LET cv == [compiler |-> CompilerOf(doc.compiler[1]),
                        version |-> doc.compiler[2],
                        optimized |-> doc.optimized]
             IN /\ compiler_version' =
                       [compiler_version EXCEPT ![uniq_id(files[idx + 1])] = cv]
                /\ skip_filename' = SkipFilename(cv)
                /\ pc' = "sources"
                /\ UNCHANGED err
    /\ UNCHANGED <<files, drawn, source_units, creations, ast, contract_names,
                   filename_to_contracts, records, original_filename, filename>>

\* lines 89-102: the path a "sources" entry is stored under
SourceKey(path) ==
    IF skip_filename THEN convert_filename(Target) ELSE convert_filename(path)

\* a parser that applies the override to the "contracts" section as well
ContractKeyOverridden(path) == SourceKey(path)

\* lines 114-119: the path a "contracts" entry is stored under
ContractKey(path) == convert_filename(path)

\* lines 88-109: one entry of the "sources" section
SourcesEntry ==
    /\ pc = "sources"
    /\ drawn < MaxEntries
    /\ drawn' = drawn + 1
    /\ \E path \in RawPaths \ srcSeen, info \in SourceInfos :
        LET key == SourceKey(path) IN
        /\ srcSeen' = srcSeen \cup {path}
        /\ source_units' =
               [source_units EXCEPT ![Unit] = SourceUnitsAfterCreate(@, key)]
        /\ creations' =
               [creations EXCEPT ![Unit] = CreationsAfterCreate(source_units[Unit], @, key)]
        /\ ast' = [ast EXCEPT ![Unit][key] = AstOf(info)]
        /\ lastSrc' = [path |-> path, info |-> info, key |-> key]
        /\ IF AstOf(info) = Null
           THEN Raise("InvalidCompilation")
           ELSE UNCHANGED <<pc, err>>
    /\ UNCHANGED <<files, idx, units, compiler_version, skip_filename,
                   contract_names, filename_to_contracts, records, original_filename,
                   filename, ctrPaths, ctrSeen, snap>>

\* lines 87-88, 111: the "sources" section is absent or exhausted
SourcesEnd ==
    /\ pc = "sources"
    /\ pc' = "contracts"
    /\ lastSrc' = NoEntry
    /\ UNCHANGED <<err, files, idx, units, compiler_version, skip_filename, drawn,
                   source_units, creations, ast, contract_names, filename_to_contracts,
                   records, original_filename, filename, srcSeen, ctrPaths, ctrSeen,
                   snap>>

\* lines 112-121: one path entry of the "contracts" section
ContractsPath ==
    /\ pc = "contracts"
    /\ drawn < MaxEntries
    /\ drawn' = drawn + 1
    /\ \E path \in RawPaths \ ctrPaths :
        LET key == ContractKey(path) IN
        /\ original_filename' = path
        /\ filename' = key
        /\ ctrPaths' = ctrPaths \cup {path}
        /\ source_units' =
               [source_units EXCEPT ![Unit] = SourceUnitsAfterCreate(@, key)]
        /\ creations' =
               [creations EXCEPT ![Unit] = CreationsAfterCreate(source_units[Unit], @, key)]
        /\ snap' = [ast |-> ast[Unit][key], names |-> contract_names[Unit][key],
                    records |-> records[Unit][key]]
    /\ pc' = "records"
    /\ UNCHANGED <<err, files, idx, units, compiler_version, skip_filename,
                   ast, contract_names, filename_to_contracts, records, srcSeen,
                   ctrSeen, lastSrc>>

\* a parser that assigns the contract-name set instead of adding to it
NamesReplaced(names, raw) == {extract_name(raw)}

\* line 126: source_unit.add_contract_name(contract_name)
NamesAfterAdd(names, raw) == names \cup {extract_name(raw)}

\* a parser that forgets the reverse index
IndexNotUpdated(names, raw) == names

\* line 127: compilation_unit.filename_to_contracts[filename].add(contract_name)
IndexAfterAdd(names, raw) == names \cup {extract_name(raw)}

\* lines 123-145: one contract of the current path entry
RecordsEntry ==
    /\ pc = "records"
    /\ drawn < MaxEntries
    /\ drawn' = drawn + 1
    /\ \E raw \in {r \in RawNames : <<original_filename, r>> \notin ctrSeen},
          info \in ContractInfos :
        LET name == extract_name(raw) IN
        /\ ctrSeen' = ctrSeen \cup {<<original_filename, raw>>}
        /\ contract_names' =
               [contract_names EXCEPT ![Unit][filename] = NamesAfterAdd(@, raw)]
        /\ filename_to_contracts' =
               [filename_to_contracts EXCEPT ![Unit][filename] = IndexAfterAdd(@, raw)]
        /\ records' = [records EXCEPT ![Unit][filename][name] = StoreRecord(@, info)]
        /\ IF FirstMissing(info) <= 5
           THEN Raise("KeyError")
           ELSE UNCHANGED <<pc, err>>
    /\ UNCHANGED <<files, idx, units, compiler_version, skip_filename,
                   source_units, creations, ast, original_filename, filename, srcSeen,
                   ctrPaths, lastSrc, snap>>

\* line 123: the path entry has no further contract
RecordsEnd ==
    /\ pc = "records"
    /\ pc' = "contracts"
    /\ snap' = NoSnap
    /\ UNCHANGED <<err, files, idx, units, compiler_version, skip_filename, drawn,
                   source_units, creations, ast, contract_names, filename_to_contracts,
                   records, original_filename, filename, srcSeen, ctrPaths, ctrSeen,
                   lastSrc>>

\* lines 111-112: the "contracts" section is absent or exhausted; back to line 62
ContractsEnd ==
    /\ pc = "contracts"
    /\ pc' = "loop"
    /\ UNCHANGED <<err, files, idx, units, compiler_version, skip_filename, drawn,
                   source_units, creations, ast, contract_names, filename_to_contracts,
                   records, original_filename, filename, srcSeen, ctrPaths, ctrSeen,
                   lastSrc, snap>>

\* line 62: no file is left, the function returns
Finish ==
    /\ pc = "loop"
    /\ idx = Len(files)
    /\ pc' = "done"
    /\ UNCHANGED <<err, files, idx, units, compiler_version, skip_filename, drawn,
                   source_units, creations, ast, contract_names, filename_to_contracts,
                   records, original_filename, filename, srcSeen, ctrPaths, ctrSeen,
                   lastSrc, snap>>

\* the other two specifications' variables, at rest
SplitIdle ==
    /\ sm_pc = "idle"
    /\ sm_init = <<>>
    /\ sm_runtime = <<>>
    /\ sm_stored_init = Nothing
    /\ sm_stored_runtime = Nothing

PathsIdle ==
    /\ hp_pc = "idle"
    /\ hp_args = [k \in {"cache", "artifacts", "root"} |-> Absent]
    /\ hp_console = Nothing
    /\ hp_config_str = Nothing
    /\ hp_result = Nothing
    /\ hp_raised = "none"

Init == ParseInit /\ SplitIdle /\ PathsIdle

Next ==
    \/ Start /\ UNCHANGED <<splitVars, pathVars>>
    \/ OpenDocument /\ UNCHANGED <<splitVars, pathVars>>
    \/ SourcesEntry /\ UNCHANGED <<splitVars, pathVars>>
    \/ SourcesEnd /\ UNCHANGED <<splitVars, pathVars>>
    \/ ContractsPath /\ UNCHANGED <<splitVars, pathVars>>
    \/ RecordsEntry /\ UNCHANGED <<splitVars, pathVars>>
    \/ RecordsEnd /\ UNCHANGED <<splitVars, pathVars>>
    \/ ContractsEnd /\ UNCHANGED <<splitVars, pathVars>>
    \/ Finish /\ UNCHANGED <<splitVars, pathVars>>

Spec == Init /\ [][Next]_vars

----------------------------------------------------------------------------
(* The source maps of one contract entry, for arbitrary source-map strings *)

MapAlphabet == {"1", ":", ";"}

\* the example of the specification: "1:2:0;3:4:0;"
ExampleMap == <<"1", ":", "2", ":", "0", ";", "3", ":", "4", ":", "0", ";">>

MapStrings == UNION {[1..n -> MapAlphabet] : n \in 0..MaxLen} \cup {ExampleMap}

SplitInit ==
    /\ sm_pc = "init"
    /\ sm_init \in MapStrings
    /\ sm_runtime \in MapStrings
    /\ sm_stored_init = Nothing
    /\ sm_stored_runtime = Nothing

\* lines 136-138: source_unit.srcmaps_init[contract_name] = ....split(";")
StoreInitMap ==
    /\ sm_pc = "init"
    /\ sm_stored_init' = Some(Split(sm_init))
    /\ sm_pc' = "runtime"
    /\ UNCHANGED <<sm_init, sm_runtime, sm_stored_runtime>>

\* lines 139-141: source_unit.srcmaps_runtime[contract_name] = ....split(";")
StoreRuntimeMap ==
    /\ sm_pc = "runtime"
    /\ sm_stored_runtime' = Some(Split(sm_runtime))
    /\ sm_pc' = "stored"
    /\ UNCHANGED <<sm_init, sm_runtime, sm_stored_init>>

NextSplit ==
    \/ StoreInitMap /\ UNCHANGED <<parseVars, pathVars>>
    \/ StoreRuntimeMap /\ UNCHANGED <<parseVars, pathVars>>

InitSplit == ParseInit /\ SplitInit /\ PathsIdle

SpecSplit == InitSplit /\ [][NextSplit]_vars

----------------------------------------------------------------------------
(* Hardhat._get_hardhat_paths and Hardhat._run_hardhat_console *)

\* {**a, **b}
Merge(a, b) == [k \in DOMAIN a \cup DOMAIN b |-> IF k \in DOMAIN b THEN b[k] ELSE a[k]]

EmptyMap == [k \in {} |-> Null]

\* lines 282-289: default_paths
DefaultPaths ==
    [k \in {"root", "configFile", "sources", "cache", "artifacts", "tests"} |->
        CASE k = "root" -> "<target>"
          [] k = "configFile" -> "<target>/hardhat.config.js"
          [] k = "sources" -> "<target>/contracts"
          [] k = "cache" -> "<target>/cache"
          [] k = "artifacts" -> "<target>/artifacts"
          [] k = "tests" -> "<target>/test"]

\* the values of hardhat_cache_directory, hardhat_artifacts_directory, hardhat_working_dir
ArgValues == {Absent, "", "dir"}

\* lines 290-299: override_paths; an argument that is absent or empty overrides nothing
OverridePaths(args) ==
    [k \in {j \in DOMAIN args : args[j] \notin {Absent, ""}} |-> "<target>/" \o args[k]]

\* what the console prints: nothing, text that is no JSON, or a JSON value
JsonMappings ==
    {EmptyMap,
     [k \in {"artifacts"} |-> "/abs/out"],
     [k \in {"root", "artifacts", "extra"} |-> "/abs/" \o k]}

Stdouts ==
    {[kind |-> "empty", type |-> Null, map |-> EmptyMap],
     [kind |-> "garbage", type |-> Null, map |-> EmptyMap]}
    \cup {[kind |-> "json", type |-> t, map |-> EmptyMap] :
             t \in {"array", "null", "number", "string"}}
    \cup {[kind |-> "json", type |-> "object", map |-> m] : m \in JsonMappings}

\* the outcomes of subprocess.Popen(...).communicate(...)
ConsoleOutcomes ==
    {[kind |-> k, stdout |-> [kind |-> "empty", type |-> Null, map |-> EmptyMap],
      stderr |-> ""] : k \in {"OSError", "SubprocessError"}}
    \cup [kind : {"ran"}, stdout : Stdouts, stderr : {"", "Error HH1"}]

PathsInit ==
    /\ hp_pc = "console"
    /\ hp_args \in [{"cache", "artifacts", "root"} -> ArgValues]
    /\ hp_console = Nothing
    /\ hp_config_str = Nothing
    /\ hp_result = Nothing
    /\ hp_raised = "none"

\* lines 304, 324-342: _run_hardhat_console
RunHardhatConsole ==
    /\ hp_pc = "console"
    /\ \E outcome \in ConsoleOutcomes :
        /\ hp_console' = Some(outcome)
        /\ IF outcome.kind # "ran"
           THEN hp_pc' = "except" /\ UNCHANGED hp_config_str
           ELSE /\ hp_pc' = "loads"
                /\ hp_config_str' = IF outcome.stderr # "" THEN Nothing
                                                         ELSE Some(outcome.stdout)
    /\ UNCHANGED <<hp_args, hp_result, hp_raised>>

\* config_str or "{}"
OrEmptyObject(config_str) ==
    IF config_str = Nothing \/ \E c \in config_str : c.kind = "empty"
    THEN [kind |-> "json", type |-> "object", map |-> EmptyMap]
    ELSE CHOOSE c \in config_str : TRUE

\* lines 305-308, 312: json.loads, the merge, and the fallback after ValueError
LoadsAndMerge ==
    /\ hp_pc = "loads"
    /\ LET text == OrEmptyObject(hp_config_str) IN
        IF text.kind = "garbage"
        THEN /\ hp_result' = Some(Merge(DefaultPaths, OverridePaths(hp_args)))
             /\ hp_pc' = "returned"
             /\ UNCHANGED hp_raised
        ELSE IF text.type # "object"
        THEN /\ hp_raised' = "TypeError"
             /\ hp_pc' = "raised"
             /\ UNCHANGED hp_result
        ELSE /\ hp_result' =
                    Some(Merge(Merge(DefaultPaths, text.map), OverridePaths(hp_args)))
             /\ hp_pc' = "returned"
             /\ UNCHANGED hp_raised
    /\ UNCHANGED <<hp_args, hp_console, hp_config_str>>

\* lines 309-312: the fallback after OSError or SubprocessError
FallbackAfterOSError ==
    /\ hp_pc = "except"
    /\ hp_result' = Some(Merge(DefaultPaths, OverridePaths(hp_args)))
    /\ hp_pc' = "returned"
    /\ UNCHANGED <<hp_args, hp_console, hp_config_str, hp_raised>>

NextPaths ==
    \/ RunHardhatConsole /\ UNCHANGED <<parseVars, splitVars>>
    \/ LoadsAndMerge /\ UNCHANGED <<parseVars, splitVars>>
    \/ FallbackAfterOSError /\ UNCHANGED <<parseVars, splitVars>>

InitPaths == ParseInit /\ SplitIdle /\ PathsInit

SpecPaths == InitPaths /\ [][NextPaths]_vars

----------------------------------------------------------------------------
(* Properties *)

Complete(r) ==
    /\ r.abis # Absent
    /\ r.bytecodes_init # Absent
    /\ r.bytecodes_runtime # Absent
    /\ r.srcmaps_init # Nothing
    /\ r.srcmaps_runtime # Nothing

\* C1: every contract name registered in a SourceUnit's contract-name set or in
\* filename_to_contracts has its ABI, both bytecodes and both source maps stored, in
\* every state, the one an error leaves behind included; and a bytecode is never
\* stored without its source map.
C1_NoPartialRecords ==
    \A u \in UnitIds, f \in Filenames, n \in BareNames :
        /\ n \in contract_names[u][f] \cup filename_to_contracts[u][f]
              => Complete(records[u][f][n])
        /\ records[u][f][n].bytecodes_init # Absent
              => records[u][f][n].srcmaps_init # Nothing
        /\ records[u][f][n].bytecodes_runtime # Absent
              => records[u][f][n].srcmaps_runtime # Nothing

\* C2: whenever hardhat_like_parsing fails, on a malformed document as on anything
\* else, the failure is an InvalidCompilation and no other kind of exception.
C2_OnlyInvalidCompilation == err \in {"none", "InvalidCompilation"}

\* C3: skip_filename is true exactly when the compiler is solc and the version is one
\* of "0.4.0" .. "0.4.9".
C3_SkipExactlyLegacySolc ==
    pc \in {"sources", "contracts", "records"} =>
        (skip_filename <=>
            /\ compiler_version[Unit].compiler = "solc"
            /\ compiler_version[Unit].version \in
                   {"0.4.0", "0.4.1", "0.4.2", "0.4.3", "0.4.4",
                    "0.4.5", "0.4.6", "0.4.7", "0.4.8", "0.4.9"})

\* a document has just been processed without error
Processed == pc \in {"loop", "done"} /\ idx > 0

\* C4: after a document is processed without error, the bare name of every
\* (path, raw name) pair of its "contracts" section is in the contract-name set of the
\* SourceUnit of the path's canonical filename and in filename_to_contracts for that
\* filename, and the two indexes hold the same names for every filename.
C4_ContractIndexing ==
    Processed =>
        /\ \A p \in ctrSeen :
              /\ extract_name(p[2]) \in contract_names[Unit][convert_filename(p[1])]
              /\ extract_name(p[2]) \in filename_to_contracts[Unit][convert_filename(p[1])]
        /\ \A f \in Filenames : contract_names[Unit][f] = filename_to_contracts[Unit][f]

\* a processed document whose "contracts" section held a qualified name and two contracts
C4_Witness ==
    /\ Processed
    /\ Cardinality(ctrSeen) >= 2
    /\ \E p \in ctrSeen : Len(p[2]) > 1

\* the value the two AST fields of a "sources" entry yield, "ast" first
Yields(info) ==
    IF info.ast \notin {Absent, Null} THEN info.ast
    ELSE IF info.legacyAST \notin {Absent, Null} THEN info.legacyAST
    ELSE Null

\* C5: for the "sources" entry just read, processing has failed exactly when neither
\* "ast" nor "legacyAST" yields a value, and otherwise the SourceUnit's AST is the value
\* of "ast", or of "legacyAST" when "ast" yields none.
C5_AstOrLegacy ==
    lastSrc.path # NoPath =>
        /\ (pc = "error") <=> (Yields(lastSrc.info) = Null)
        /\ pc # "error" => ast[Unit][lastSrc.key] = Yields(lastSrc.info)

\* the canonical keys the "sources" entries read so far are to be stored under
SourcesKeys ==
    IF skip_filename
    THEN {convert_filename(Target) : p \in srcSeen}
    ELSE {convert_filename(p) : p \in srcSeen}

\* C6: when the override is signalled every "sources" entry is stored under the
\* canonical key of the target and every "contracts" entry under the canonical key of
\* its own path; when it is not, both sections use the entry's own path.
C6_OverrideOnlySources ==
    idx > 0 =>
        /\ source_units[Unit] = SourcesKeys \cup {convert_filename(p) : p \in ctrPaths}
        /\ pc # "error" => \A f \in Filenames : ast[Unit][f] # Null <=> f \in SourcesKeys

\* a document under the override with both sections read
C6_Witness ==
    /\ Processed
    /\ skip_filename
    /\ srcSeen # {}
    /\ ctrPaths # {}
    /\ source_units[Unit] = {convert_filename(Target), <<"A.sol">>}

SplitsTo(s, stored) ==
    \A parts \in stored :
        /\ Len(parts) = CountSep(s) + 1
        /\ Join(parts) = s
        /\ \A i \in 1..Len(parts) : CountSep(parts[i]) = 0
        /\ s = ExampleMap =>
              parts = <<<<"1", ":", "2", ":", "0">>, <<"3", ":", "4", ":", "0">>, <<>>>>

\* C7: the stored init and runtime source maps are the pieces of the source-map string
\* between ';', empty pieces kept: (number of ';') + 1 pieces that joined with ';'
\* give the string back; "1:2:0;3:4:0;" is stored as ["1:2:0", "3:4:0", ""].
C7_SplitLosesNothing ==
    /\ SplitsTo(sm_init, sm_stored_init)
    /\ SplitsTo(sm_runtime, sm_stored_runtime)

\* the example string and a string of an empty piece only, both stored
C7_Witness ==
    /\ sm_pc = "stored"
    /\ sm_init = ExampleMap
    /\ sm_runtime = <<";">>
    /\ sm_stored_runtime = Some(<<<<>>, <<>>>>)

\* the console could not be run, wrote to stderr, or printed nothing, no JSON, or a
\* JSON value that is no mapping
Malformed(outcome) ==
    \/ outcome.kind # "ran"
    \/ outcome.stderr # ""
    \/ outcome.stdout.kind \in {"empty", "garbage"}
    \/ outcome.stdout.type # "object"

\* C8: whenever the configuration query fails or returns malformed data,
\* _get_hardhat_paths returns the default paths overlaid by the user's overrides and
\* raises nothing.
C8_FallsBackToDefaults ==
    \A outcome \in hp_console :
        Malformed(outcome) /\ hp_pc \in {"returned", "raised"} =>
            /\ hp_raised = "none"
            /\ hp_result = Some(Merge(DefaultPaths, OverridePaths(hp_args)))

\* one SourceUnit construction per canonical filename referenced, none for the others
OneSourceUnitPerFilename ==
    \A u \in UnitIds, f \in Filenames :
        creations[u][f] = IF f \in source_units[u] THEN 1 ELSE 0

\* the bare names the current "contracts" entry has declared so far
Redeclared == {extract_name(p[2]) : p \in {q \in ctrSeen : q[1] = original_filename}}

\* the current "contracts" entry is for a SourceUnit that "sources" populated
EntryOnPopulated == pc \in {"records", "error"} /\ snap.ast # Null

C10_AbortsWithoutRecovery == [][err # "none" => UNCHANGED parseVars]_vars

\* the first of two documents failed in the middle of a section, with input left
C10_Witness ==
    /\ pc = "error"
    /\ Len(files) = 2
    /\ idx = 1
    /\ units = {uniq_id(files[1])}
    /\ drawn < MaxEntries
    /\ srcSeen # {}

====
